---- MODULE Spec2Model ----
(***************************************************************************)
(* Model of scripts/generate_binaural_beats.py: the two waveform           *)
(* generators, the WAV encoder save_wav and the driver main().             *)
(*                                                                         *)
(* Numbers.  Floating-point values are modelled as exact rationals         *)
(* [n |-> numerator, d |-> denominator > 0] in lowest terms.  np.sin is a  *)
(* fixed-point sine: the phase is quantised to 1/12 of a turn and the      *)
(* value to 1/1000.  Rounding of float32 is not modelled.                  *)
(***************************************************************************)
EXTENDS Integers, Sequences, FiniteSets, TLC

VARIABLES
    \* ---- a call of generate_pure_tone / generate_binaural_beat ----
    args,       \* the call's arguments
    fn,         \* which generator is running: "none", "pure", "binaural"
    pcGen,      \* position inside the generator
    t,          \* local t
    tone,       \* local tone (generate_pure_tone)
    left,       \* local left (generate_binaural_beat)
    right,      \* local right (generate_binaural_beat)
    stereo,     \* the returned array: a sequence of frames <<ch0, ch1>>
    \* ---- a call of save_wav's quantisation on one sample ----
    qin,        \* audio: the floating samples handed to save_wav
    qout,       \* audio_normalized: << >> until the conversion has run
    \* ---- the driver main() ----
    pc,         \* position inside main
    run,        \* how many times the script has been started
    dirExists,  \* whether OUTPUT_DIR exists
    files,      \* the files of OUTPUT_DIR: name -> content
    audio,      \* the waveform main holds between generate and save
    written,    \* names of the files written to completion by this run
    stdout,     \* the lines printed by this run
    failedAt,   \* -1, or the number of the file whose write failed (0: makedirs)
    snapshot    \* OUTPUT_DIR as it was when this run started

genVars   == <<args, fn, pcGen, t, tone, left, right, stereo>>
quantVars == <<qin, qout>>
mainVars  == <<pc, run, dirExists, files, audio, written, stdout, failedAt, snapshot>>
vars      == <<genVars, quantVars, mainVars>>

(***************************************************************************)
(* Bounds of the explored inputs.                                          *)
(***************************************************************************)
MaxFreq == 3        \* frequencies 1..MaxFreq Hz
MaxBeat == 2        \* beat offsets 0..MaxBeat Hz
MaxDurQ == 10       \* durations 1/4, 2/4, ..., MaxDurQ/4 seconds
MaxRate == 12       \* sample rates 1..MaxRate Hz
MaxRuns == 2        \* the script is started at most MaxRuns times
QGrid   == 40       \* quantiser inputs are multiples of 1/QGrid

(***************************************************************************)
(* Program constants.                                                      *)
(***************************************************************************)
SAMPLE_RATE == 44100
DURATION == 30

(***************************************************************************)
(* Exact rational arithmetic standing for float arithmetic.                *)
(***************************************************************************)
Abs(x) == IF x < 0 THEN -x ELSE x

Min(a, b) == IF a <= b THEN a ELSE b

Max(a, b) == IF a >= b THEN a ELSE b

RECURSIVE GCD(_, _)
GCD(a, b) == IF b = 0 THEN a ELSE GCD(b, a % b)

Rat(n, d) ==
    LET s == IF d < 0 THEN -1 ELSE 1
        g == GCD(Abs(n), Abs(d))
    IN  [n |-> (s * n) \div g, d |-> (s * d) \div g]

FromInt(k) == [n |-> k, d |-> 1]

\* Sums, products and comparisons cancel common factors first, so that the
\* intermediate integers stay small.
RatAdd(a, b) ==
    LET g == GCD(a.d, b.d)
    IN  Rat(a.n * (b.d \div g) + b.n * (a.d \div g), (a.d \div g) * b.d)

RatSub(a, b) ==
    LET g == GCD(a.d, b.d)
    IN  Rat(a.n * (b.d \div g) - b.n * (a.d \div g), (a.d \div g) * b.d)

RatMul(a, b) ==
    LET g1 == GCD(Abs(a.n), b.d)
        g2 == GCD(Abs(b.n), a.d)
    IN  Rat((a.n \div g1) * (b.n \div g2), (a.d \div g2) * (b.d \div g1))

RatDivInt(a, k) == RatMul(a, [n |-> 1, d |-> k])

RatLeq(a, b) ==
    LET g == GCD(a.d, b.d)
    IN  a.n * (b.d \div g) <= b.n * (a.d \div g)

RatLt(a, b) ==
    LET g == GCD(a.d, b.d)
    IN  a.n * (b.d \div g) < b.n * (a.d \div g)

RatNeg(a) == [n |-> -a.n, d |-> a.d]

Zero == FromInt(0)

One == FromInt(1)

\* Python int(x) and the C cast behind np.int16(x): truncation toward zero.
Trunc(a) == IF a.n >= 0 THEN a.n \div a.d ELSE -((-a.n) \div a.d)

AMPLITUDE == Rat(3, 10)

(***************************************************************************)
(* np.sin(2 * np.pi * turns): fixed-point sine of a whole number of turns. *)
(***************************************************************************)
SinTable == <<0, 500, 866, 1000, 866, 500, 0, -500, -866, -1000, -866, -500>>

Sin2Pi(turns) ==
    LET k == ((12 * turns.n) \div turns.d) % 12
    IN  Rat(SinTable[k + 1], 1000)

(***************************************************************************)
(* np.linspace(start, stop, num), endpoint=True (the default).             *)
(***************************************************************************)
Linspace(start, stop, num) ==
    IF num <= 0 THEN << >>
    ELSE IF num = 1 THEN <<start>>
    ELSE LET step == RatDivInt(RatSub(stop, start), num - 1)
         IN  [i \in 1..num |->
                 IF i = num THEN stop
                 ELSE RatAdd(start, RatMul(FromInt(i - 1), step))]

\* Variant: the sample count rounded to nearest instead of truncated.
NumSamplesRounded(duration, sample_rate) ==
    Trunc(RatAdd(RatMul(FromInt(sample_rate), duration), Rat(1, 2)))

\* int(sample_rate * duration)
NumSamples(duration, sample_rate) == Trunc(RatMul(FromInt(sample_rate), duration))

\* t = np.linspace(0, duration, int(sample_rate * duration))
TimePoints(duration, sample_rate) ==
    Linspace(Zero, duration, NumSamples(duration, sample_rate))

\* fade_samples = int(sample_rate * 0.5)
FadeSamples(sample_rate) == Trunc(RatMul(FromInt(sample_rate), Rat(1, 2)))

FadeIn(fade_samples) == Linspace(Zero, One, fade_samples)

\* Variant: the fade-out ramp built without its end point, so it stops
\* one step short of 0.
FadeOutNoEndpoint(fade_samples) ==
    [i \in 1..fade_samples |-> Rat(fade_samples - (i - 1), fade_samples)]

FadeOut(fade_samples) == Linspace(One, Zero, fade_samples)

(***************************************************************************)
(* The waveforms before the fade.                                          *)
(***************************************************************************)
\* left = amplitude * np.sin(2 * np.pi * base_freq * t)
LeftChannel(base_freq, tt, amplitude) ==
    [i \in 1..Len(tt) |->
        RatMul(amplitude, Sin2Pi(RatMul(FromInt(base_freq), tt[i])))]

\* Variant: the right channel without the amplitude factor.
RightChannelUnscaled(base_freq, beat_freq, tt, amplitude) ==
    [i \in 1..Len(tt) |->
        Sin2Pi(RatMul(FromInt(base_freq + beat_freq), tt[i]))]

\* Variant: the right channel detuned downward, at base_freq - beat_freq.
RightChannelMinusBeat(base_freq, beat_freq, tt, amplitude) ==
    [i \in 1..Len(tt) |->
        RatMul(amplitude, Sin2Pi(RatMul(FromInt(base_freq - beat_freq), tt[i])))]

\* right = amplitude * np.sin(2 * np.pi * (base_freq + beat_freq) * t)
RightChannel(base_freq, beat_freq, tt, amplitude) ==
    [i \in 1..Len(tt) |->
        RatMul(amplitude, Sin2Pi(RatMul(FromInt(base_freq + beat_freq), tt[i])))]

\* amplitude * weight * np.sin(2 * np.pi * freq * k * t[i])
Harmonic(freq, k, weight, ti, amplitude) ==
    RatMul(RatMul(amplitude, weight), Sin2Pi(RatMul(FromInt(freq * k), ti)))

\* tone = fundamental; tone += 2nd harmonic; tone += 3rd harmonic
Tone(freq, tt, amplitude) ==
    [i \in 1..Len(tt) |->
        RatAdd(RatAdd(Harmonic(freq, 1, Rat(7, 10), tt[i], amplitude),
                      Harmonic(freq, 2, Rat(2, 10), tt[i], amplitude)),
               Harmonic(freq, 3, Rat(1, 10), tt[i], amplitude))]

(***************************************************************************)
(* The in-place fades  x[:fade_samples] *= fade_in  and                    *)
(* x[-fade_samples:] *= fade_out.  An in-place product of a slice of       *)
(* length m by an array of length f succeeds when f = m or f = 1           *)
(* (broadcast); otherwise numpy raises ValueError.                         *)
(***************************************************************************)
\* first index (0-based) of the slice x[-fade_samples:]; x[-0:] is all of x
TailStart(n, fade_samples) ==
    IF fade_samples = 0 THEN 0 ELSE Max(n - fade_samples, 0)

CanFade(n, fade_samples) ==
    /\ \/ fade_samples = Min(fade_samples, n)
       \/ fade_samples = 1
    /\ \/ fade_samples = n - TailStart(n, fade_samples)
       \/ fade_samples = 1

MulHead(x, fade) ==
    [i \in 1..Len(x) |->
        IF i <= Min(Len(fade), Len(x))
        THEN RatMul(x[i], fade[IF Len(fade) = 1 THEN 1 ELSE i])
        ELSE x[i]]

MulTail(x, fade) ==
    LET s == TailStart(Len(x), Len(fade))
    IN  [i \in 1..Len(x) |->
            IF i > s
            THEN RatMul(x[i], fade[IF Len(fade) = 1 THEN 1 ELSE i - s])
            ELSE x[i]]

\* x[:fade_samples] *= fade_in ; x[-fade_samples:] *= fade_out
ApplyFade(x, fade_samples) ==
    MulTail(MulHead(x, FadeIn(fade_samples)), FadeOut(fade_samples))

\* The gain the two fades give each index of an array of n samples: the
\* fades applied to a signal that is 1 everywhere.
Envelope(n, fade_samples) == ApplyFade([i \in 1..n |-> One], fade_samples)

\* np.column_stack((a, b))
ColumnStack(a, b) == [i \in 1..Len(a) |-> <<a[i], b[i]>>]

\* Variant: the second column is the tone phase-inverted.
PureToneStereoInverted(x) == ColumnStack(x, [i \in 1..Len(x) |-> RatNeg(x[i])])

\* stereo = np.column_stack((tone, tone))
PureToneStereo(x) == ColumnStack(x, x)

\* stereo = np.column_stack((left, right))
BinauralStereo(l, r) == ColumnStack(l, r)

(***************************************************************************)
(* A call of a generator, statement by statement.                          *)
(***************************************************************************)
Durations == {Rat(k, 4) : k \in 1..MaxDurQ}

ArgSet ==
    [base_freq : 1..MaxFreq, beat_freq : 0..MaxBeat, duration : Durations,
     sample_rate : 1..MaxRate, amplitude : {AMPLITUDE, One}]

NoArgs ==
    [base_freq |-> 0, beat_freq |-> 0, duration |-> Zero,
     sample_rate |-> 0, amplitude |-> Zero]

GenIdle ==
    /\ fn = "none"
    /\ pcGen = "ready"
    /\ t = << >>
    /\ tone = << >>
    /\ left = << >>
    /\ right = << >>
    /\ stereo = << >>

QuantIdle ==
    /\ qin = << >>
    /\ qout = << >>

\* generate_pure_tone(freq, duration, sample_rate, amplitude) is entered
CallPureTone ==
    /\ pcGen = "ready"
    /\ fn' = "pure"
    /\ pcGen' = "linspace"
    /\ UNCHANGED <<args, t, tone, left, right, stereo, quantVars, mainVars>>

\* generate_binaural_beat(base_freq, beat_freq, duration, ...) is entered
CallBinauralBeat ==
    /\ pcGen = "ready"
    /\ fn' = "binaural"
    /\ pcGen' = "linspace"
    /\ UNCHANGED <<args, t, tone, left, right, stereo, quantVars, mainVars>>

\* t = np.linspace(0, duration, int(sample_rate * duration), dtype=np.float32)
GenTimePoints ==
    /\ pcGen = "linspace"
    /\ t' = TimePoints(args.duration, args.sample_rate)
    /\ pcGen' = "synth"
    /\ UNCHANGED <<args, fn, tone, left, right, stereo, quantVars, mainVars>>

\* tone = ...; tone += ...; tone += ...
PureToneSynth ==
    /\ pcGen = "synth"
    /\ fn = "pure"
    /\ tone' = Tone(args.base_freq, t, args.amplitude)
    /\ pcGen' = "fade"
    /\ UNCHANGED <<args, fn, t, left, right, stereo, quantVars, mainVars>>

\* left = ...; right = ...
BinauralSynth ==
    /\ pcGen = "synth"
    /\ fn = "binaural"
    /\ left' = LeftChannel(args.base_freq, t, args.amplitude)
    /\ right' = RightChannel(args.base_freq, args.beat_freq, t, args.amplitude)
    /\ pcGen' = "fade"
    /\ UNCHANGED <<args, fn, t, tone, stereo, quantVars, mainVars>>

\* tone[:fade_samples] *= fade_in; tone[-fade_samples:] *= fade_out
PureToneFade ==
    /\ pcGen = "fade"
    /\ fn = "pure"
    /\ IF CanFade(Len(tone), FadeSamples(args.sample_rate))
       THEN /\ tone' = ApplyFade(tone, FadeSamples(args.sample_rate))
            /\ pcGen' = "stack"
       ELSE /\ tone' = tone
            /\ pcGen' = "raised"
    /\ UNCHANGED <<args, fn, t, left, right, stereo, quantVars, mainVars>>

\* left[:fade_samples] *= fade_in ... right[-fade_samples:] *= fade_out
BinauralFade ==
    /\ pcGen = "fade"
    /\ fn = "binaural"
    /\ IF CanFade(Len(left), FadeSamples(args.sample_rate))
       THEN /\ left' = ApplyFade(left, FadeSamples(args.sample_rate))
            /\ right' = ApplyFade(right, FadeSamples(args.sample_rate))
            /\ pcGen' = "stack"
       ELSE /\ left' = left
            /\ right' = right
            /\ pcGen' = "raised"
    /\ UNCHANGED <<args, fn, t, tone, stereo, quantVars, mainVars>>

\* stereo = np.column_stack((tone, tone)); return stereo
PureToneReturn ==
    /\ pcGen = "stack"
    /\ fn = "pure"
    /\ stereo' = PureToneStereo(tone)
    /\ pcGen' = "returned"
    /\ UNCHANGED <<args, fn, t, tone, left, right, quantVars, mainVars>>

\* stereo = np.column_stack((left, right)); return stereo
BinauralReturn ==
    /\ pcGen = "stack"
    /\ fn = "binaural"
    /\ stereo' = BinauralStereo(left, right)
    /\ pcGen' = "returned"
    /\ UNCHANGED <<args, fn, t, tone, left, right, quantVars, mainVars>>

(***************************************************************************)
(* save_wav's quantisation  audio_normalized = np.int16(audio * 32767).    *)
(***************************************************************************)
\* Variant: the symmetric-looking multiplier 32768.
QuantizeBy32768(x) == Trunc(RatMul(x, FromInt(32768)))

\* audio * 32767, then truncation toward zero
Quantize(x) == Trunc(RatMul(x, FromInt(32767)))

InInt16(v) == -32768 <= v /\ v <= 32767

\* The conversion of an out-of-range float to int16 is undefined: builds
\* wrap modulo 2^16, saturate, or produce the "indefinite" value.
Int16Outcomes(v) ==
    IF InInt16(v) THEN {v}
    ELSE {((v + 32768) % 65536) - 32768,
          IF v < 0 THEN -32768 ELSE 32767,
          -32768}

QuantInputs ==
    {Rat(k, QGrid) : k \in (0 - QGrid - QGrid \div 2) .. (QGrid + QGrid \div 2)}

SaveWavQuantize ==
    /\ qin # << >>
    /\ qout = << >>
    /\ \E o \in Int16Outcomes(Quantize(qin[1])) : qout' = <<o>>
    /\ UNCHANGED <<qin, genVars, mainVars>>

(***************************************************************************)
(* The driver main().                                                      *)
(***************************************************************************)
OUTPUT_DIR == "assets/audio"

\* Variant: the theta and alpha blocks of main in the other order.
ConfigsAlphaBeforeTheta ==
    << [file |-> "432hz-healing.wav", kind |-> "pure", base_freq |-> 432,
        beat_freq |-> 0, label |-> "1. Generating 432Hz Pure Tone..."],
       [file |-> "528hz-love.wav", kind |-> "pure", base_freq |-> 528,
        beat_freq |-> 0, label |-> "2. Generating 528Hz Pure Tone..."],
       [file |-> "alpha-waves.wav", kind |-> "binaural", base_freq |-> 200,
        beat_freq |-> 10, label |-> "4. Generating Alpha Waves (10Hz)..."],
       [file |-> "theta-waves.wav", kind |-> "binaural", base_freq |-> 200,
        beat_freq |-> 6, label |-> "3. Generating Theta Waves (6Hz)..."],
       [file |-> "delta-waves.wav", kind |-> "binaural", base_freq |-> 150,
        beat_freq |-> 2, label |-> "5. Generating Delta Waves (2Hz)..."],
       [file |-> "beta-waves.wav", kind |-> "binaural", base_freq |-> 250,
        beat_freq |-> 18, label |-> "6. Generating Beta Waves (18Hz)..."] >>

\* The six generate/save pairs of main, in program order.
Configs ==
    << [file |-> "432hz-healing.wav", kind |-> "pure", base_freq |-> 432,
        beat_freq |-> 0, label |-> "1. Generating 432Hz Pure Tone..."],
       [file |-> "528hz-love.wav", kind |-> "pure", base_freq |-> 528,
        beat_freq |-> 0, label |-> "2. Generating 528Hz Pure Tone..."],
       [file |-> "theta-waves.wav", kind |-> "binaural", base_freq |-> 200,
        beat_freq |-> 6, label |-> "3. Generating Theta Waves (6Hz)..."],
       [file |-> "alpha-waves.wav", kind |-> "binaural", base_freq |-> 200,
        beat_freq |-> 10, label |-> "4. Generating Alpha Waves (10Hz)..."],
       [file |-> "delta-waves.wav", kind |-> "binaural", base_freq |-> 150,
        beat_freq |-> 2, label |-> "5. Generating Delta Waves (2Hz)..."],
       [file |-> "beta-waves.wav", kind |-> "binaural", base_freq |-> 250,
        beat_freq |-> 18, label |-> "6. Generating Beta Waves (18Hz)..."] >>

FileNames == {Configs[k].file : k \in 1..Len(Configs)}

\* What a name of OUTPUT_DIR holds.  "stale" is content this program did
\* not write in the run at hand; "partial" a file opened for writing whose
\* data did not all arrive.
FileContent(state, rate, frames, wave) ==
    [state |-> state, rate |-> rate, channels |-> IF state = "complete" THEN 2 ELSE 0,
     bits |-> IF state = "complete" THEN 16 ELSE 0, frames |-> frames, wave |-> wave]

NoWave ==
    [kind |-> "none", base_freq |-> 0, beat_freq |-> 0, duration |-> Zero,
     sample_rate |-> 0, amplitude |-> Zero, frames |-> 0, ok |-> FALSE]

Absent == FileContent("absent", 0, 0, NoWave)

Stale == FileContent("stale", 0, 0, NoWave)

Partial == FileContent("partial", 0, 0, NoWave)

\* The array a generator returns for the given arguments: the arguments
\* (each sample is a function of them and of its index alone), the number
\* of frames, and whether the call returns at all.
Waveform(kind, base_freq, beat_freq, duration, sample_rate, amplitude) ==
    [kind |-> kind, base_freq |-> base_freq, beat_freq |-> beat_freq,
     duration |-> duration, sample_rate |-> sample_rate, amplitude |-> amplitude,
     frames |-> NumSamples(duration, sample_rate),
     ok |-> CanFade(NumSamples(duration, sample_rate), FadeSamples(sample_rate))]

\* Variant: generation that depends on something a run changes (here the
\* frequency drifts with the number of the run).
GenerateRunDependent(k) ==
    Waveform(Configs[k].kind, Configs[k].base_freq + run, Configs[k].beat_freq,
             FromInt(DURATION), SAMPLE_RATE, AMPLITUDE)

\* generate_pure_tone(f, DURATION) / generate_binaural_beat(b, d, DURATION)
\* with the defaults sample_rate=SAMPLE_RATE, amplitude=AMPLITUDE
Generate(k) ==
    Waveform(Configs[k].kind, Configs[k].base_freq, Configs[k].beat_freq,
             FromInt(DURATION), SAMPLE_RATE, AMPLITUDE)

\* wavfile.write(filepath, sample_rate, np.int16(audio * 32767))
WavFile(wave, sample_rate) == FileContent("complete", sample_rate, wave.frames, wave)

At(op, k) == [op |-> op, k |-> k]

Crash(k) ==
    /\ pc' = At("crashed", k)
    /\ failedAt' = k

\* os.makedirs(OUTPUT_DIR, exist_ok=True) and the four header prints
Makedirs ==
    /\ pc.op = "makedirs"
    /\ dirExists' = TRUE
    /\ stdout' = stdout \o << <<"Generating binaural beats audio files...">>,
                              <<"Duration: ", "30", " seconds each">>,
                              <<"Sample rate: ", "44100", "Hz">>,
                              <<"">> >>
    /\ pc' = At("generate", 1)
    /\ UNCHANGED <<run, files, audio, written, failedAt, snapshot, genVars, quantVars>>

\* os.makedirs raises OSError
MakedirsFail ==
    /\ pc.op = "makedirs"
    /\ ~dirExists
    /\ Crash(0)
    /\ UNCHANGED <<run, dirExists, files, audio, written, stdout, snapshot,
                   genVars, quantVars>>

\* print("k. Generating ..."); audio_k = generate_...(...)
GenerateStep ==
    /\ pc.op = "generate"
    /\ stdout' = Append(stdout, <<Configs[pc.k].label>>)
    /\ IF Generate(pc.k).ok
       THEN /\ audio' = Generate(pc.k)
            /\ pc' = At("open", pc.k)
            /\ failedAt' = failedAt
       ELSE /\ audio' = audio
            /\ Crash(pc.k)
    /\ UNCHANGED <<run, dirExists, files, written, snapshot, genVars, quantVars>>

\* save_wav: wavfile.write opens the file for writing, truncating it
SaveOpen ==
    /\ pc.op = "open"
    /\ dirExists
    /\ files' = [files EXCEPT ![Configs[pc.k].file] = Partial]
    /\ pc' = At("write", pc.k)
    /\ UNCHANGED <<run, dirExists, audio, written, stdout, failedAt, snapshot,
                   genVars, quantVars>>

\* save_wav: the file cannot be opened
SaveOpenFail ==
    /\ pc.op = "open"
    /\ Crash(pc.k)
    /\ UNCHANGED <<run, dirExists, files, audio, written, stdout, snapshot,
                   genVars, quantVars>>

\* save_wav: header and data are written, the file is closed,
\* print(f"Created: {filepath}")
SaveWrite ==
    /\ pc.op = "write"
    /\ files' = [files EXCEPT ![Configs[pc.k].file] = WavFile(audio, SAMPLE_RATE)]
    /\ written' = Append(written, Configs[pc.k].file)
    /\ stdout' = Append(stdout, <<"Created: ", OUTPUT_DIR, "/", Configs[pc.k].file>>)
    /\ pc' = IF pc.k < Len(Configs) THEN At("generate", pc.k + 1) ELSE At("summary", pc.k)
    /\ UNCHANGED <<run, dirExists, audio, failedAt, snapshot, genVars, quantVars>>

\* Variant: the write error is swallowed and main goes on to the next file.
SaveWriteFailIgnored ==
    /\ pc.op = "write"
    /\ failedAt' = pc.k
    /\ pc' = IF pc.k < Len(Configs) THEN At("generate", pc.k + 1) ELSE At("summary", pc.k)
    /\ UNCHANGED <<run, dirExists, files, audio, written, stdout, snapshot,
                   genVars, quantVars>>

\* save_wav: writing the data fails
SaveWriteFail ==
    /\ pc.op = "write"
    /\ Crash(pc.k)
    /\ UNCHANGED <<run, dirExists, files, audio, written, stdout, snapshot,
                   genVars, quantVars>>

\* the three closing prints; main returns
Summary ==
    /\ pc.op = "summary"
    /\ stdout' = stdout \o << <<"">>,
                              <<"All audio files generated successfully!">>,
                              <<"Files saved to: ", OUTPUT_DIR, "/">> >>
    /\ pc' = At("done", pc.k)
    /\ UNCHANGED <<run, dirExists, files, audio, written, failedAt, snapshot,
                   genVars, quantVars>>

\* the script is started again after a run that ended normally
Rerun ==
    /\ pc.op = "done"
    /\ run < MaxRuns
    /\ run' = run + 1
    /\ pc' = At("makedirs", 0)
    /\ audio' = NoWave
    /\ written' = << >>
    /\ stdout' = << >>
    /\ snapshot' = [dir |-> dirExists, files |-> files]
    /\ UNCHANGED <<dirExists, files, failedAt, genVars, quantVars>>

MainIdle ==
    /\ pc = At("idle", 0)
    /\ run = 0
    /\ dirExists = FALSE
    /\ files = [f \in FileNames |-> Absent]
    /\ audio = NoWave
    /\ written = << >>
    /\ stdout = << >>
    /\ failedAt = -1
    /\ snapshot = [dir |-> dirExists, files |-> files]

(***************************************************************************)
(* Spec: runs of the script.  The output directory may or may not exist    *)
(* beforehand and may hold earlier files under the six names.              *)
(***************************************************************************)
Init ==
    /\ args = NoArgs
    /\ GenIdle
    /\ QuantIdle
    /\ pc = At("makedirs", 0)
    /\ run = 1
    /\ dirExists \in BOOLEAN
    /\ files \in [FileNames -> {Absent, Stale}]
    /\ dirExists = FALSE => files = [f \in FileNames |-> Absent]
    /\ audio = NoWave
    /\ written = << >>
    /\ stdout = << >>
    /\ failedAt = -1
    /\ snapshot = [dir |-> dirExists, files |-> files]

Next ==
    \/ Makedirs
    \/ MakedirsFail
    \/ GenerateStep
    \/ SaveOpen
    \/ SaveOpenFail
    \/ SaveWrite
    \/ SaveWriteFail
    \/ Summary
    \/ Rerun

Spec == Init /\ [][Next]_vars

(***************************************************************************)
(* SpecGen: one call of a generator on arguments drawn from ArgSet.        *)
(***************************************************************************)
InitGen ==
    /\ args \in ArgSet
    /\ GenIdle
    /\ QuantIdle
    /\ MainIdle

NextGen ==
    \/ CallPureTone
    \/ CallBinauralBeat
    \/ GenTimePoints
    \/ PureToneSynth
    \/ BinauralSynth
    \/ PureToneFade
    \/ BinauralFade
    \/ PureToneReturn
    \/ BinauralReturn

SpecGen == InitGen /\ [][NextGen]_vars

(***************************************************************************)
(* SpecQuant: save_wav's conversion of one sample drawn from QuantInputs.  *)
(***************************************************************************)
InitQuant ==
    /\ args = NoArgs
    /\ GenIdle
    /\ MainIdle
    /\ qin \in {<<x>> : x \in QuantInputs}
    /\ qout = << >>

NextQuant == SaveWavQuantize

SpecQuant == InitQuant /\ [][NextQuant]_vars

(***************************************************************************)
(*                              Properties                                 *)
(***************************************************************************)
\* The quantities the properties speak of, written out in integer
\* arithmetic from the call's arguments.
ArgN == (args.sample_rate * args.duration.n) \div args.duration.d

ArgF == args.sample_rate \div 2

Returned == pcGen = "returned"

TwoColumns == \A i \in 1..Len(stereo) : Len(stereo[i]) = 2

\* C2 as stated: for any (frequency, duration, sample rate) both generators
\* return a waveform of exactly trunc(duration * sample_rate) two-column
\* frames.
C2_AlwaysReturnsN ==
    pcGen \in {"returned", "raised"} =>
        /\ Returned
        /\ Len(stereo) = ArgN
        /\ TwoColumns

\* C2 amended: a call that returns has exactly trunc(duration * sample_rate)
\* two-column frames, and a call returns exactly when the fade windows fit:
\* fade_samples = 1, or 2 <= fade_samples <= N, or fade_samples = N = 0;
\* otherwise the in-place fade raises.
C2_ReturnsNWhenFadeFits ==
    /\ Returned => Len(stereo) = ArgN /\ TwoColumns
    /\ pcGen \in {"returned", "raised"} =>
          (Returned <=> \/ ArgF = 1
                        \/ ArgF >= 2 /\ ArgN >= ArgF
                        \/ ArgF = 0 /\ ArgN = 0)

C2_Witness ==
    /\ Returned
    /\ (args.sample_rate * args.duration.n) % args.duration.d # 0
    /\ Len(stereo) >= 2

\* C5: every sample of every channel of a returned waveform lies within
\* [-amplitude, amplitude], bounds included.
C5_WithinAmplitude ==
    Returned =>
        \A i \in 1..Len(stereo) : \A c \in 1..2 :
            /\ RatLeq(RatNeg(args.amplitude), stereo[i][c])
            /\ RatLeq(stereo[i][c], args.amplitude)

C5_Witness ==
    /\ Returned
    /\ fn = "binaural"
    /\ args.amplitude = AMPLITUDE
    /\ \E i \in 1..Len(stereo) : stereo[i][2] = args.amplitude
    /\ \E i \in 1..Len(stereo) : stereo[i][1] = RatNeg(args.amplitude)

\* The fade envelope rises from 0 to 1 over the first fade_samples indices,
\* falls from 1 to 0 over the last fade_samples, and the first and the last
\* frame of the returned waveform are exactly 0.
RampedAndSilentEnds ==
    LET env == Envelope(ArgN, ArgF)
    IN  /\ env[1] = Zero
        /\ env[ArgF] = One
        /\ \A i \in 1..(ArgF - 1) : RatLeq(env[i], env[i + 1])
        /\ env[ArgN - ArgF + 1] = One
        /\ env[ArgN] = Zero
        /\ \A i \in (ArgN - ArgF + 1)..(ArgN - 1) : RatLeq(env[i + 1], env[i])
        /\ stereo[1] = <<Zero, Zero>>
        /\ stereo[ArgN] = <<Zero, Zero>>

\* C6 as stated: in every (non-empty) returned waveform the envelope is
\* ramped 0 to 1 at the start, 1 to 0 at the end, and both end samples are 0.
C6_EveryWaveformRamped ==
    Returned /\ ArgN >= 1 => RampedAndSilentEnds

\* C6 amended: the same, for waveforms whose two fade windows hold at least
\* two samples each and do not overlap (fade_samples >= 2 and
\* N >= 2 * fade_samples: sample_rate >= 4 and duration >= 1 s).
C6_RampedWhenWindowsDisjoint ==
    Returned /\ ArgF >= 2 /\ ArgN >= 2 * ArgF => RampedAndSilentEnds

C6_Witness ==
    /\ Returned
    /\ ArgF >= 3
    /\ ArgN > 2 * ArgF
    /\ \E i \in 1..Len(stereo) : stereo[i][1] # Zero

\* C8: both channels of every frame generate_pure_tone returns are equal.
C8_PureToneChannelsEqual ==
    Returned /\ fn = "pure" =>
        \A i \in 1..Len(stereo) : stereo[i][1] = stereo[i][2]

C8_Witness ==
    /\ Returned
    /\ fn = "pure"
    /\ \E i, j \in 1..Len(stereo) : stereo[i][1] # stereo[j][1]

\* The linear envelope in closed form, index i of N (1-based), fade length F.
RampIn(i, F) ==
    IF i <= F THEN (IF F = 1 THEN Zero ELSE Rat(i - 1, F - 1)) ELSE One

RampOut(i, N, F) ==
    IF i > N - F THEN (IF F = 1 THEN One ELSE Rat(N - i, F - 1)) ELSE One

EnvAt(i, N, F) == RatMul(RampIn(i, F), RampOut(i, N, F))

\* C9: frame i of generate_binaural_beat is
\* <<env(i) * amplitude * sin(2 pi base t_i),
\*   env(i) * amplitude * sin(2 pi (base + beat) t_i)>>,
\* same t_i and same env(i) in both; with beat = 0 the channels are equal.
C9_BinauralChannels ==
    Returned /\ fn = "binaural" =>
        /\ \A i \in 1..Len(stereo) :
              LET e == RatMul(EnvAt(i, ArgN, ArgF), args.amplitude)
              IN  /\ stereo[i][1] =
                        RatMul(e, Sin2Pi(RatMul(FromInt(args.base_freq), t[i])))
                  /\ stereo[i][2] =
                        RatMul(e, Sin2Pi(RatMul(
                            FromInt(args.base_freq + args.beat_freq), t[i])))
        /\ args.beat_freq = 0 =>
              \A i \in 1..Len(stereo) : stereo[i][1] = stereo[i][2]

C9_Witness ==
    /\ Returned
    /\ fn = "binaural"
    /\ args.beat_freq > 0
    /\ ArgF >= 2
    /\ ArgN >= 2 * ArgF
    /\ \E i \in 1..Len(stereo) : stereo[i][1] # stereo[i][2]

\* C10: the time points are t_i = i / sample_rate (0-based i): t_0 = 0,
\* spacing 1 / sample_rate, the last one strictly below duration.
C10_HalfOpenTimeGrid ==
    pcGen \in {"synth", "fade", "stack", "returned", "raised"} =>
        /\ Len(t) = ArgN
        /\ \A i \in 1..Len(t) : t[i] = Rat(i - 1, args.sample_rate)
        /\ Len(t) >= 1 => RatLt(t[Len(t)], args.duration)

\* C4: for a sample x in [-1, 1] save_wav stores trunc(x * 32767), truncated
\* toward zero; it lies in [-32768, 32767]; +1.0 gives 32767 and -1.0 gives
\* -32767.
C4_QuantizeTruncates ==
    qout # << >> /\ RatLeq(RatNeg(One), qin[1]) /\ RatLeq(qin[1], One) =>
        LET p == qin[1].n * 32767
            q == IF p >= 0 THEN p \div qin[1].d ELSE 0 - ((0 - p) \div qin[1].d)
        IN  /\ qout[1] = q
            /\ -32768 <= qout[1] /\ qout[1] <= 32767
            /\ qin[1] = One => qout[1] = 32767
            /\ qin[1] = RatNeg(One) => qout[1] = -32767 /\ qout[1] # -32768

C4_Witness ==
    /\ qin = <<RatNeg(One)>>
    /\ qout = <<-32767>>

\* The names of the first k files of the program, in program order.
FirstNames(k) == [j \in 1..k |-> Configs[j].file]

SixNames ==
    <<"432hz-healing.wav", "528hz-love.wav", "theta-waves.wav",
      "alpha-waves.wav", "delta-waves.wav", "beta-waves.wav">>

ThirtySecondStereo(f) ==
    /\ f.state = "complete"
    /\ f.frames = 1323000
    /\ f.channels = 2
    /\ f.rate = 44100
    /\ f.bits = 16

\* C1: a run without I/O failure first makes sure the directory exists,
\* then writes the six files in program order, each once and each complete
\* before the next is generated; at the end exactly the six have been
\* written, each 1,323,000 stereo frames at 44100 Hz, whether or not the
\* directory existed beforehand.
C1_SixFilesInOrder ==
    /\ pc.op \in {"generate", "open", "write", "summary", "done"} => dirExists
    /\ pc.op \in {"generate", "open", "write"} =>
          /\ written = FirstNames(pc.k - 1)
          /\ \A j \in 1..(pc.k - 1) : ThirtySecondStereo(files[SixNames[j]])
    /\ pc.op \in {"summary", "done"} =>
          /\ written = SixNames
          /\ \A j \in 1..6 : ThirtySecondStereo(files[SixNames[j]])
          /\ failedAt = -1

C1_Witness ==
    /\ pc.op = "done"
    /\ run = 1
    /\ ~snapshot.dir
    /\ written = SixNames
    /\ \A j \in 1..6 : ThirtySecondStereo(files[SixNames[j]])

NoSummary ==
    \A i \in 1..Len(stdout) : stdout[i] # <<"All audio files generated successfully!">>

FailedRunState ==
    /\ failedAt # -1 => pc.op = "crashed" /\ pc.k = failedAt
    /\ pc.op = "crashed" =>
          /\ failedAt = pc.k
          /\ NoSummary
          /\ written = FirstNames(IF pc.k = 0 THEN 0 ELSE pc.k - 1)
          /\ \A j \in 1..6 :
                /\ j < pc.k => ThirtySecondStereo(files[SixNames[j]])
                /\ j > pc.k => files[SixNames[j]] = snapshot.files[SixNames[j]]
          /\ pc.k = 0 => stdout = << >>

\* C7: an I/O failure at makedirs or at the k-th file ends the run there:
\* nothing follows the failure (no retry, no later file, no summary), and
\* the files before the k-th stay as they were written.
C7_FailStop == [](FailedRunState) /\ [][pc.op # "crashed"]_vars

C7_Witness ==
    /\ pc = At("crashed", 3)
    /\ written = <<"432hz-healing.wav", "528hz-love.wav">>
    /\ files["theta-waves.wav"].state = "partial"
    /\ files["beta-waves.wav"].state = "stale"

====
